---- MODULE Spec2Model ----
(***************************************************************************)
(* BrowserDiscordManager (packages/client-browser-discord/src/index.ts):   *)
(* per-room polling timers, handler fan-out, setActiveChannel,             *)
(* sendMessage and cleanup, with every await of the code as a point where  *)
(* other operations interleave.                                            *)
(***************************************************************************)
EXTENDS Integers, Sequences, FiniteSets, TLC

\* ------------------------------------------------------------- bounds
MaxObj     == 3   \* DiscordRoomState objects ever allocated (the 'dm' one included)
MaxMsgs    == 3   \* messages ever posted to the platform
MaxPolls   == 2   \* pollMessages calls in flight together
MaxSets    == 2   \* setActiveChannel calls in flight together
MaxChanges == 1   \* add/removeMessageHandler calls while one fan-out is in flight
BatchLimit == 3   \* messages the platform returns for one poll

\* ------------------------------------------------------------- values
DMChannelId == "202880968556544000"
NoChannel   == ""                       \* null / undefined / '' : all falsy
DMKey       == "dm"
RuntimeId   == "a1"                     \* runtime.agentId of the constructor's runtime
AgentIds    == {"a1", "a2"}             \* agentId arguments of the public operations
ChannelArgs == {"c1", DMChannelId}      \* channelId arguments of setActiveChannel
Channels    == {DMChannelId} \cup ChannelArgs
Keys        == {DMKey} \cup AgentIds
Handlers    == {"h1", "h2"}
Outcomes    == {"ok", "throw"}

VARIABLES
    agents,           \* this.agents: the agent ids that have a runtime
    roomStates,       \* this.roomStates: key -> object id (0: no entry)
    heap,             \* the DiscordRoomState objects, by id
    nObj,             \* objects allocated so far
    messageHandlers,  \* this.messageHandlers: the Set's entry list, in insertion order
    currentDMChannel, \* this.currentDMChannel
    chanLog,          \* the platform: channel -> its messages, oldest first
    nextId,           \* the platform: messages posted so far
    polls,            \* pollMessages calls in flight
    sets,             \* setActiveChannel calls in flight
    send,             \* the sendMessage call in flight
    cleaned,          \* history: "clean" once cleanup(a) ran, "reactivated" once a
                      \* setActiveChannel(a) started after that
    ev                \* history: what the last step did

vars == <<agents, roomStates, heap, nObj, messageHandlers, currentDMChannel,
          chanLog, nextId, polls, sets, send, cleaned, ev>>

\* ------------------------------------------------------------- helpers
RECURSIVE ReverseSeq(_)
ReverseSeq(s) == IF s = <<>> THEN <<>> ELSE ReverseSeq(Tail(s)) \o <<Head(s)>>

Min(a, b) == IF a < b THEN a ELSE b

\* stringToUuid: a deterministic, injective tag of its argument
StringToUuid(s) == <<"uuid", s>>

\* interface DiscordRoomState, plus the key the object was created for
\* (cleared: clearInterval was called on its timer)
NoObj == [key |-> "", channelId |-> NoChannel, lastMessageId |-> 0,
          pollingInterval |-> FALSE, cleared |-> FALSE]

NewState(key, channelId) == [NoObj EXCEPT !.key = key, !.channelId = channelId]

\* an interval timer is the pollingInterval of the object it was stored on;
\* it fires until clearInterval is called on it
LiveTimer(o) == heap[o].pollingInterval /\ ~heap[o].cleared
LiveTimersOf(k) == {o \in 1..nObj : LiveTimer(o) /\ heap[o].key = k}

\* clearInterval(state.pollingInterval) under `if (state?.pollingInterval)`
ClearIntervalOf(h, o) ==
    IF o # 0 /\ h[o].pollingInterval THEN [h EXCEPT ![o].cleared = TRUE] ELSE h

\* the platform's answer to GET channel messages: the most recent first
Recent(log, limit) ==
    LET n == Min(limit, Len(log))
    IN  [i \in 1..n |-> log[Len(log) + 1 - i]]

\* what a step did: the operation, its room key and object, the message id and
\* channel it is about, whether it made a network call, whether it failed, and
\* a finished tick's batch and handler calls
NoEv == [op |-> "init", key |-> "", obj |-> 0, id |-> 0, ch |-> NoChannel, room |-> "",
         http |-> FALSE, batch |-> <<>>, calls |-> <<>>, mem |-> <<>>,
         changed |-> 0, threw |-> 0, failed |-> FALSE, stage |-> ""]
Quiet == [NoEv EXCEPT !.op = "step"]

\* ------------------------------------------------------------- handler set
\* this.messageHandlers is a Set: its elements in insertion order, no duplicates.
SeqToSet(q) == {q[i] : i \in 1..Len(q)}
Without(q, h) == SelectSeq(q, LAMBDA x : x # h)

\* Set.prototype.add / delete / clear
SetAdd(q, h) == IF h \in SeqToSet(q) THEN q ELSE Append(q, h)
SetDelete(q, h) == Without(q, h)
\* (mutant: clear leaves the elements)
SetClearKeeps(q) == q
SetClear(q) == <<>>

\* ------------------------------------------------------------- handleNewMessages
\* (mutant: no message is skipped)
SkipNothing(message) == FALSE
\* `if (message.author.bot) continue;`
SkipMessage(message) == message.bot

\* first position >= from of a message the loop does not skip (0: none)
NextMessage(msgs, from) ==
    LET c == {k \in from..Len(msgs) : ~SkipMessage(msgs[k])}
    IN  IF c = {} THEN 0 ELSE CHOOSE k \in c : \A j \in c : k <= j

\* The two nested loops, from the handler call that just settled to the next
\* one: i is the position of the current message (0 before the first), todo
\* the handlers the Set iterator of the inner loop has still to visit.
\* Result <<i, handler, todo>>, or <<0, "", <<>>>> when both loops are over.
NextCall(msgs, handlers, i, todo) ==
    IF i # 0 /\ todo # <<>>
    THEN <<i, Head(todo), Tail(todo)>>
    ELSE LET i2 == NextMessage(msgs, i + 1)
         IN  IF i2 # 0 /\ handlers # <<>>
             THEN <<i2, Head(handlers), Tail(handlers)>>
             ELSE <<0, "", <<>>>>

\* (mutant: no try/catch around the call)
AfterHandlerUncaught(outcome) == IF outcome = "throw" THEN "abort" ELSE "next"
\* try { await handler(message) } catch (error) { log }: the loop goes on
AfterHandler(outcome) == "next"

\* ------------------------------------------------------------- pollMessages
\* (mutant: the last item delivered, the oldest)
CursorOfOldest(batch) == batch[Len(batch)].id
\* `state.lastMessageId = messages[0].id`
CursorOf(batch) == batch[1].id
\* (mutant: the batch is dispatched as delivered)
DispatchOrderAsDelivered(batch) == batch
\* `messages.reverse()`
DispatchOrder(batch) == ReverseSeq(batch)

\* a pollMessages call: where it is, its `state` and the channel of its request,
\* the response, the loops' position, and as history the calls it made, the cursor
\* of the room when it started, how often the handler set changed under its
\* loops and which of its calls was the first to throw (0: none)
IdlePoll == [pc |-> "idle", key |-> "", obj |-> 0, ch |-> NoChannel, batch |-> <<>>,
             i |-> 0, todo |-> <<>>, calls |-> <<>>, since |-> 0,
             changed |-> 0, threw |-> 0]

FreePoll(n) == {p \in 1..n : polls[p].pc = "idle"}
LowestFree(S) == CHOOSE p \in S : \A q \in S : p <= q

\* (mutant: only the room state is checked)
NothingToPollStateOnly(s) == s = 0
\* `if (!state?.channelId) return`, s the room state the key is mapped to
NothingToPoll(s) == s = 0 \/ heap[s].channelId = NoChannel

\* the timer of object o fires: pollMessages(key) up to its first await
\* (at most n calls in flight)
Tick(o, n) ==
    /\ o \in 1..nObj /\ LiveTimer(o)
    /\ LET k == heap[o].key
           s == roomStates[k]
       IN  IF NothingToPoll(s)
           THEN /\ ev' = [NoEv EXCEPT !.op = "pollSkip", !.key = k]
                /\ UNCHANGED polls
           ELSE /\ FreePoll(n) # {}
                /\ polls' = [polls EXCEPT ![LowestFree(FreePoll(n))] =
                       [IdlePoll EXCEPT !.pc = "fetch", !.key = k, !.obj = s,
                                        !.ch = heap[s].channelId,
                                        !.since = heap[s].lastMessageId]]
                /\ ev' = Quiet
    /\ UNCHANGED <<agents, roomStates, heap, nObj, messageHandlers, currentDMChannel,
                   chanLog, nextId, sets, send, cleaned>>

\* the platform answers the poll's request (it has no channel '')
PollServe(p) ==
    /\ polls[p].pc = "fetch" /\ polls[p].ch \in Channels
    /\ polls' = [polls EXCEPT ![p].pc = "resp",
                              ![p].batch = Recent(chanLog[polls[p].ch], BatchLimit)]
    /\ ev' = Quiet
    /\ UNCHANGED <<agents, roomStates, heap, nObj, messageHandlers, currentDMChannel,
                   chanLog, nextId, sets, send, cleaned>>

\* (mutant: the catch rethrows)
CatchInPollRethrows == "rethrown"
\* `catch (error) { elizaLogger.error(...) }` of pollMessages
CatchInPoll == "suppressed"

\* an error reaches the catch of pollMessages: the call ends
PollCaught(p, q) ==
    /\ polls' = [polls EXCEPT ![p] = IdlePoll]
    /\ ev' = [NoEv EXCEPT !.op = IF CatchInPoll = "suppressed" THEN "pollFailed"
                                 ELSE "pollThrew",
                          !.key = q.key, !.obj = q.obj, !.ch = q.ch, !.http = TRUE,
                          !.batch = q.batch, !.calls = q.calls, !.changed = q.changed,
                          !.threw = q.threw, !.failed = TRUE]

\* fetch or response.json() rejects
PollFail(p) ==
    /\ polls[p].pc \in {"fetch", "resp"}
    /\ PollCaught(p, [polls[p] EXCEPT !.batch = <<>>])
    /\ UNCHANGED <<agents, roomStates, heap, nObj, messageHandlers, currentDMChannel,
                   chanLog, nextId, sets, send, cleaned>>

\* pollMessages returns
PollDone(p, q) ==
    /\ polls' = [polls EXCEPT ![p] = IdlePoll]
    /\ ev' = [NoEv EXCEPT !.op = "pollDone", !.key = q.key, !.obj = q.obj, !.ch = q.ch,
                          !.http = TRUE, !.batch = q.batch, !.calls = q.calls,
                          !.changed = q.changed, !.threw = q.threw]

\* handler(message) is called: the call is logged and the tick awaits it
PollCall(p, q, nc) ==
    LET m == DispatchOrder(q.batch)[nc[1]]
        c == [msg |-> m, h |-> nc[2]]
    IN  /\ polls' = [polls EXCEPT ![p] = [q EXCEPT !.pc = "await", !.i = nc[1],
                                                  !.todo = nc[3], !.calls = Append(@, c)]]
        /\ ev' = [NoEv EXCEPT !.op = "call", !.key = q.key, !.obj = q.obj, !.ch = q.ch,
                              !.id = m.id]

\* the response arrives: cursor, then handleNewMessages up to its first await
PollResume(p) ==
    /\ polls[p].pc = "resp"
    /\ LET q == polls[p]
       IN  IF Len(q.batch) > 0
           THEN /\ heap' = [heap EXCEPT ![q.obj].lastMessageId = CursorOf(q.batch)]
                /\ LET nc == NextCall(DispatchOrder(q.batch), messageHandlers, 0, <<>>)
                   IN  IF nc[1] = 0 THEN PollDone(p, q) ELSE PollCall(p, q, nc)
           ELSE /\ heap' = heap
                /\ PollDone(p, q)
    /\ UNCHANGED <<agents, roomStates, nObj, messageHandlers, currentDMChannel,
                   chanLog, nextId, sets, send, cleaned>>

\* the awaited handler settles: the loops run on to the next call or to the end
HandlerSettle(p, outcome) ==
    /\ polls[p].pc = "await"
    /\ LET q == [polls[p] EXCEPT !.threw = IF outcome = "throw" /\ @ = 0
                                            THEN Len(polls[p].calls) ELSE @]
           nc == NextCall(DispatchOrder(q.batch), messageHandlers, q.i, q.todo)
       IN  IF outcome = "throw" /\ AfterHandler(outcome) # "next"
           THEN PollCaught(p, q)        \* it reaches pollMessages' own catch
           ELSE IF nc[1] = 0 THEN PollDone(p, q) ELSE PollCall(p, q, nc)
    /\ UNCHANGED <<agents, roomStates, heap, nObj, messageHandlers, currentDMChannel,
                   chanLog, nextId, sets, send, cleaned>>

\* ------------------------------------------------------------- handlers
\* a change of the handler set shows through to the loops in flight: their
\* Set iterators are live
CanChange == \A p \in 1..MaxPolls : polls[p].changed < MaxChanges

\* todo: for each loop in flight, what its iterator has still to visit
Iterating(todo, changes) ==
    [p \in 1..MaxPolls |->
        IF polls[p].pc = "await"
        THEN [polls[p] EXCEPT !.todo = todo[p],
                              !.changed = IF changes THEN Min(@ + 1, MaxChanges + 1) ELSE @]
        ELSE polls[p]]

AddMessageHandler(h) ==
    /\ CanChange
    /\ messageHandlers' = SetAdd(messageHandlers, h)
    /\ polls' = Iterating([p \in 1..MaxPolls |->
                              IF h \in SeqToSet(messageHandlers) THEN polls[p].todo
                              ELSE Append(polls[p].todo, h)],
                          messageHandlers' # messageHandlers)
    /\ ev' = Quiet
    /\ UNCHANGED <<agents, roomStates, heap, nObj, currentDMChannel, chanLog, nextId,
                   sets, send, cleaned>>

RemoveMessageHandler(h) ==
    /\ CanChange
    /\ messageHandlers' = SetDelete(messageHandlers, h)
    /\ polls' = Iterating([p \in 1..MaxPolls |-> Without(polls[p].todo, h)],
                          messageHandlers' # messageHandlers)
    /\ ev' = Quiet
    /\ UNCHANGED <<agents, roomStates, heap, nObj, currentDMChannel, chanLog, nextId,
                   sets, send, cleaned>>

\* ------------------------------------------------------------- setActiveChannel
IdleSet == [pc |-> "idle", agentId |-> "", obj |-> 0, ch |-> NoChannel, seed |-> <<>>]
FreeSet == {s \in 1..MaxSets : sets[s].pc = "idle"}

\* up to the await of rest.get: the old timer is cleared, a fresh state is stored
SetStart(a, channelId) ==
    /\ nObj < MaxObj /\ FreeSet # {}
    /\ nObj' = nObj + 1
    /\ heap' = [ClearIntervalOf(heap, roomStates[a]) EXCEPT
                   ![nObj + 1] = NewState(a, channelId)]
    /\ roomStates' = [roomStates EXCEPT ![a] = nObj + 1]
    /\ sets' = [sets EXCEPT ![LowestFree(FreeSet)] =
                   [IdleSet EXCEPT !.pc = "get", !.agentId = a, !.obj = nObj + 1,
                                   !.ch = channelId]]
    /\ cleaned' = [cleaned EXCEPT ![a] = IF @ = "never" THEN @ ELSE "reactivated"]
    /\ ev' = Quiet
    /\ UNCHANGED <<agents, messageHandlers, currentDMChannel, chanLog, nextId, 
                   polls, send>>

\* the platform answers the seed request (limit: 1)
SetServe(s) ==
    /\ sets[s].pc = "get" /\ sets[s].ch \in Channels
    /\ sets' = [sets EXCEPT ![s].pc = "resp", ![s].seed = Recent(chanLog[sets[s].ch], 1)]
    /\ ev' = Quiet
    /\ UNCHANGED <<agents, roomStates, heap, nObj, messageHandlers, currentDMChannel,
                   chanLog, nextId, polls, send, cleaned>>

\* what the rest of the try block does to the new state object
SeedAndStart(st, seed) ==
    [st EXCEPT !.lastMessageId = IF Len(seed) > 0 THEN seed[1].id ELSE @,
               !.pollingInterval = TRUE]
\* what the catch block leaves of it
SeedFailed(st) == st

SetResume(s) ==
    /\ sets[s].pc = "resp"
    /\ heap' = [heap EXCEPT ![sets[s].obj] = SeedAndStart(@, sets[s].seed)]
    /\ sets' = [sets EXCEPT ![s] = IdleSet]
    /\ ev' = [NoEv EXCEPT !.op = "setDone", !.key = sets[s].agentId, !.obj = sets[s].obj,
                          !.ch = sets[s].ch, !.http = TRUE]
    /\ UNCHANGED <<agents, roomStates, nObj, messageHandlers, currentDMChannel,
                   chanLog, nextId, polls, send, cleaned>>

\* rest.get rejects: logged, and setActiveChannel returns
SetFail(s) ==
    /\ sets[s].pc \in {"get", "resp"}
    /\ heap' = [heap EXCEPT ![sets[s].obj] = SeedFailed(@)]
    /\ sets' = [sets EXCEPT ![s] = IdleSet]
    /\ ev' = [NoEv EXCEPT !.op = "setDone", !.key = sets[s].agentId, !.obj = sets[s].obj,
                          !.ch = sets[s].ch, !.http = TRUE, !.failed = TRUE]
    /\ UNCHANGED <<agents, roomStates, nObj, messageHandlers, currentDMChannel,
                   chanLog, nextId, polls, send, cleaned>>

\* ------------------------------------------------------------- sendMessage
IdleSend == [pc |-> "idle", agentId |-> "", obj |-> 0, ch |-> NoChannel, room |-> "",
             id |-> 0]

\* `state?.channelId || this.currentDMChannel`
ResolveChannel(state) ==
    IF state # 0 /\ heap[state].channelId # NoChannel
    THEN heap[state].channelId ELSE currentDMChannel
\* the room key the channel was resolved from
ResolvedRoom(a, state) ==
    IF state # 0 /\ heap[state].channelId # NoChannel THEN a ELSE DMKey
\* (mutant: only the channel is checked)
NotFoundChannelOnly(hasRuntime, channelId) == channelId = NoChannel
\* `if (!runtime || !channelId) throw`
NotFound(hasRuntime, channelId) == ~hasRuntime \/ channelId = NoChannel

MemoryOf(agentId, id, channelId) ==
    [id |-> StringToUuid(id), agentId |-> agentId, userId |-> agentId,
     roomId |-> StringToUuid(channelId)]

\* `if (state) state.lastMessageId = response.id`
RecordSent(h, state, id) ==
    IF state # 0 THEN [h EXCEPT ![state].lastMessageId = id] ELSE h

SendStart(a) ==
    /\ send.pc = "idle"
    /\ LET state == roomStates[a]
           channelId == ResolveChannel(state)
       IN  IF NotFound(a \in agents, channelId)
           THEN /\ send' = send
                /\ ev' = [NoEv EXCEPT !.op = "sendNotFound", !.key = a, !.failed = TRUE]
           ELSE /\ send' = [IdleSend EXCEPT !.pc = "post", !.agentId = a, !.obj = state,
                                            !.ch = channelId,
                                            !.room = ResolvedRoom(a, state)]
                /\ ev' = [NoEv EXCEPT !.op = "sendPost", !.key = a, !.ch = channelId,
                                      !.http = TRUE]
    /\ UNCHANGED <<agents, roomStates, heap, nObj, messageHandlers, currentDMChannel,
                   chanLog, nextId, polls, sets, cleaned>>

\* the platform creates the message (authored by this bot) and answers;
\* sendMessage builds the memory and awaits createMemory
SendPosted ==
    /\ send.pc = "post" /\ nextId < MaxMsgs
    /\ nextId' = nextId + 1
    /\ chanLog' = [chanLog EXCEPT ![send.ch] = Append(@, [id |-> nextId + 1, bot |-> TRUE])]
    /\ send' = [send EXCEPT !.pc = "mem", !.id = nextId + 1]
    /\ ev' = Quiet
    /\ UNCHANGED <<agents, roomStates, heap, nObj, messageHandlers, currentDMChannel,
                   polls, sets, cleaned>>

\* (mutant: the catch only logs)
CatchInSendSwallows == "suppressed"
\* `catch (error) { elizaLogger.error(...); throw error; }` of sendMessage
CatchInSend == "rethrown"

\* how a call that failed at `stage` ends: the catch block, no cursor write
SendCaught(stage, id) ==
    [NoEv EXCEPT !.op = IF CatchInSend = "rethrown" THEN "sendThrew" ELSE "sendSwallowed",
                 !.key = send.agentId, !.obj = send.obj, !.ch = send.ch, !.id = id,
                 !.http = TRUE, !.failed = (CatchInSend = "rethrown"), !.stage = stage]

\* rest.post rejects: logged and rethrown
SendPostFail ==
    /\ send.pc = "post"
    /\ send' = IdleSend
    /\ ev' = SendCaught("post", 0)
    /\ UNCHANGED <<agents, roomStates, heap, nObj, messageHandlers, currentDMChannel,
                   chanLog, nextId, polls, sets, cleaned>>

\* createMemory resolves: cursor, return memory
SendMemOk ==
    /\ send.pc = "mem"
    /\ LET memory == MemoryOf(send.agentId, send.id, send.ch)
       IN  /\ heap' = RecordSent(heap, send.obj, send.id)
           /\ ev' = [NoEv EXCEPT !.op = "sendReturn", !.key = send.agentId,
                                 !.obj = send.obj, !.ch = send.ch, !.id = send.id,
                                 !.http = TRUE, !.mem = <<memory>>, !.room = send.room]
    /\ send' = IdleSend
    /\ UNCHANGED <<agents, roomStates, nObj, messageHandlers, currentDMChannel,
                   chanLog, nextId, polls, sets, cleaned>>

\* createMemory rejects: logged and rethrown (the message is posted already)
SendMemFail ==
    /\ send.pc = "mem"
    /\ send' = IdleSend
    /\ ev' = SendCaught("mem", send.id)
    /\ UNCHANGED <<agents, roomStates, heap, nObj, messageHandlers, currentDMChannel,
                   chanLog, nextId, polls, sets, cleaned>>

\* ------------------------------------------------------------- cleanup
\* (mutant: the whole map is emptied)
DeleteAllRooms(rs, a) == [k \in Keys |-> 0]
\* `this.roomStates.delete(agentId)`
DeleteRoom(rs, a) == [rs EXCEPT ![a] = 0]

\* no await in it: one step
Cleanup(a) ==
    /\ heap' = ClearIntervalOf(heap, roomStates[a])
    /\ roomStates' = DeleteRoom(roomStates, a)
    /\ agents' = agents \ {a}
    /\ messageHandlers' = SetClear(messageHandlers)
    /\ polls' = Iterating([p \in 1..MaxPolls |-> SetClear(polls[p].todo)],
                          messageHandlers' # messageHandlers)
    /\ cleaned' = [cleaned EXCEPT ![a] = "clean"]
    /\ ev' = [NoEv EXCEPT !.op = "cleanup", !.key = a]
    /\ UNCHANGED <<nObj, currentDMChannel, chanLog, nextId, sets, send>>

\* ------------------------------------------------------------- the platform
\* somebody else (a user, or another bot) posts to a channel
ExternalPost(c, bot) ==
    /\ nextId < MaxMsgs
    /\ nextId' = nextId + 1
    /\ chanLog' = [chanLog EXCEPT ![c] = Append(@, [id |-> nextId + 1, bot |-> bot])]
    /\ ev' = Quiet
    /\ UNCHANGED <<agents, roomStates, heap, nObj, messageHandlers, currentDMChannel,
                   polls, sets, send, cleaned>>

\* ------------------------------------------------------------- specification
\* new BrowserDiscordManager(runtime): registerAgent, initializeDMChannel,
\* startPollingDMs all run before the constructor returns
Init ==
    /\ agents = {RuntimeId}
    /\ currentDMChannel = DMChannelId
    /\ nObj = 1
    /\ heap = [o \in 1..MaxObj |->
                 IF o = 1 THEN [NewState(DMKey, DMChannelId) EXCEPT !.pollingInterval = TRUE]
                 ELSE NoObj]
    /\ roomStates = [k \in Keys |-> IF k = DMKey THEN 1 ELSE 0]
    /\ messageHandlers = <<>>
    /\ chanLog = [c \in Channels |-> <<>>]
    /\ nextId = 0
    /\ polls = [p \in 1..MaxPolls |-> IdlePoll]
    /\ sets = [s \in 1..MaxSets |-> IdleSet]
    /\ send = IdleSend
    /\ cleaned = [a \in AgentIds |-> "never"]
    /\ ev = NoEv

\* every operation, at every await
Next ==
    \/ \E o \in 1..MaxObj : Tick(o, MaxPolls)
    \/ \E p \in 1..MaxPolls : PollServe(p)
    \/ \E p \in 1..MaxPolls : PollFail(p)
    \/ \E p \in 1..MaxPolls : PollResume(p)
    \/ \E p \in 1..MaxPolls, r \in Outcomes : HandlerSettle(p, r)
    \/ \E h \in Handlers : AddMessageHandler(h)
    \/ \E h \in Handlers : RemoveMessageHandler(h)
    \/ \E a \in AgentIds, c \in ChannelArgs : SetStart(a, c)
    \/ \E s \in 1..MaxSets : SetServe(s)
    \/ \E s \in 1..MaxSets : SetResume(s)
    \/ \E s \in 1..MaxSets : SetFail(s)
    \/ \E a \in AgentIds : SendStart(a)
    \/ SendPosted
    \/ SendPostFail
    \/ SendMemOk
    \/ SendMemFail
    \/ \E a \in AgentIds : Cleanup(a)
    \/ \E c \in Channels, b \in BOOLEAN : ExternalPost(c, b)

Spec == Init /\ [][Next]_vars

\* The specifications below are Spec restricted to some of its operations:
\* every behaviour of theirs is a behaviour of Spec.

\* Timers: the ticks, setActiveChannel and cleanup of every room key, on a
\* platform nobody posts to.
NextTimers ==
    \/ \E o \in 1..MaxObj : Tick(o, MaxPolls)
    \/ \E p \in 1..MaxPolls : PollServe(p)
    \/ \E p \in 1..MaxPolls : PollFail(p)
    \/ \E p \in 1..MaxPolls : PollResume(p)
    \/ \E a \in AgentIds, c \in ChannelArgs \cup {NoChannel} : SetStart(a, c)
    \/ \E s \in 1..MaxSets : SetServe(s)
    \/ \E s \in 1..MaxSets : SetResume(s)
    \/ \E s \in 1..MaxSets : SetFail(s)
    \/ \E a \in AgentIds : Cleanup(a)

SpecTimers == Init /\ [][NextTimers]_vars

\* Sending: sendMessage, setActiveChannel, cleanup and the ticks of the
\* registered agent's room, on a platform only this bot posts to.
NextRooms ==
    \/ \E o \in 2..MaxObj : Tick(o, 1)
    \/ PollServe(1)
    \/ PollFail(1)
    \/ PollResume(1)
    \/ \E c \in ChannelArgs \cup {NoChannel} : SetStart(RuntimeId, c)
    \/ \E s \in 1..MaxSets : SetServe(s)
    \/ \E s \in 1..MaxSets : SetResume(s)
    \/ \E s \in 1..MaxSets : SetFail(s)
    \/ SendStart(RuntimeId)
    \/ SendPosted
    \/ SendPostFail
    \/ SendMemOk
    \/ SendMemFail
    \/ Cleanup(RuntimeId)

SpecRooms == Init /\ [][NextRooms]_vars

\* The fan-out of the direct-message room: its ticks one at a time, the handler
\* registration, cleanup and the messages other users post to the channel.
NextFanout ==
    \/ \E o \in 1..MaxObj : Tick(o, 1)
    \/ PollServe(1)
    \/ PollFail(1)
    \/ PollResume(1)
    \/ \E r \in Outcomes : HandlerSettle(1, r)
    \/ \E h \in Handlers : AddMessageHandler(h)
    \/ \E h \in Handlers : RemoveMessageHandler(h)
    \/ \E a \in AgentIds : Cleanup(a)
    \/ \E b \in BOOLEAN : ExternalPost(DMChannelId, b)

SpecFanout == Init /\ [][NextFanout]_vars

\* ------------------------------------------------------------- properties
\* the ticks whose handler calls are on record: those awaiting a handler, and
\* the one that just ended
Ticks ==
    {[batch |-> polls[p].batch, calls |-> polls[p].calls, since |-> polls[p].since] :
        p \in {q \in 1..MaxPolls : polls[q].pc = "await"}}
    \cup (IF ev.op \in {"pollDone", "pollFailed", "pollThrew"}
          THEN {[batch |-> ev.batch, calls |-> ev.calls, since |-> 0]} ELSE {})

\* where the platform delivered message m in the batch
Pos(batch, m) == CHOOSE j \in 1..Len(batch) : batch[j] = m
\* the batch read from its last item to its first
OldestFirst(batch) == [j \in 1..Len(batch) |-> batch[Len(batch) + 1 - j]]
NonBot(msgs) == SelectSeq(msgs, LAMBDA m : ~m.bot)
MsgsTo(calls, h) ==
    LET mine == SelectSeq(calls, LAMBDA c : c.h = h)
    IN  [j \in 1..Len(mine) |-> mine[j].msg]
\* every non-bot message oldest first, each to every handler in turn
FullFanOut(batch, handlers) ==
    LET ms == NonBot(OldestFirst(batch))
        n == Len(handlers)
    IN  [j \in 1..(Len(ms) * n) |->
            [msg |-> ms[((j - 1) \div n) + 1], h |-> handlers[((j - 1) % n) + 1]]]

\* C1: every room key has at most one uncancelled polling timer that polls it.
C1_OneTimerPerKey == \A k \in Keys : Cardinality(LiveTimersOf(k)) <= 1

\* C2: a tick dispatches only messages newer than the cursor the room had when
\* the tick began, so a message an earlier tick dispatched or recorded as the
\* cursor is never dispatched again.
C2_NoRedispatch ==
    \A p \in 1..MaxPolls : polls[p].pc = "await" =>
        \A j \in 1..Len(polls[p].calls) : polls[p].calls[j].msg.id > polls[p].since

\* C3: each handler is called on the non-bot messages of a batch in the
\* reverse of the order the platform delivered them in: no call of a handler
\* is for a message delivered before the message of its earlier call, and a
\* tick that ends with the handler set unchanged has called every handler on
\* exactly the non-bot messages, last delivered first.
C3_OldestFirst ==
    /\ \A t \in Ticks : \A a, b \in 1..Len(t.calls) :
          (a < b /\ t.calls[a].h = t.calls[b].h)
              => Pos(t.batch, t.calls[a].msg) >= Pos(t.batch, t.calls[b].msg)
    /\ (ev.op = "pollDone" /\ ev.changed = 0) =>
          \A h \in SeqToSet(messageHandlers) :
              MsgsTo(ev.calls, h) = NonBot(OldestFirst(ev.batch))

C3_Witness ==
    /\ ev.op = "pollDone" /\ ev.changed = 0
    /\ Len(ev.batch) = 3
    /\ ~ev.batch[1].bot /\ ev.batch[2].bot /\ ~ev.batch[3].bot
    /\ Len(ev.calls) = 2
    /\ ev.calls[1].msg = ev.batch[3] /\ ev.calls[2].msg = ev.batch[1]

\* C4: no handler is called with a bot-authored message, and a tick that ends
\* with the handler set unchanged has offered every non-bot message of its
\* batch to every registered handler (none at all when the batch is all bots).
C4_NoBotDispatched ==
    /\ \A t \in Ticks : \A j \in 1..Len(t.calls) : ~t.calls[j].msg.bot
    /\ (ev.op = "pollDone" /\ ev.changed = 0) =>
          {<<ev.calls[j].msg, ev.calls[j].h>> : j \in 1..Len(ev.calls)}
              = {m \in SeqToSet(ev.batch) : ~m.bot} \X SeqToSet(messageHandlers)

C4_Witness ==
    /\ ev.op = "pollDone" /\ ev.changed = 0
    /\ Len(messageHandlers) = 2
    /\ \E m \in SeqToSet(ev.batch) : m.bot
    /\ \E m \in SeqToSet(ev.batch) : ~m.bot
    /\ Len(ev.calls) = 2

\* C5: a handler that throws ends neither the loops nor the tick: the tick
\* returns normally, and with the handler set unchanged it has made every
\* call of the full fan-out, the ones after the failure included.
C5_FailureContained ==
    /\ ev.op # "pollThrew"
    /\ (ev.op \in {"pollDone", "pollFailed"} /\ ev.threw # 0) => ev.op = "pollDone"
    /\ (ev.op = "pollDone" /\ ev.threw # 0 /\ ev.changed = 0) =>
          ev.calls = FullFanOut(ev.batch, messageHandlers)

C5_Witness ==
    /\ ev.op = "pollDone" /\ ev.changed = 0
    /\ ev.threw = 1
    /\ Len(messageHandlers) = 2
    /\ Len(ev.calls) = 4

\* C6: when sendMessage returns, the cursor of the room its channel was
\* resolved from is the id of the message just sent, and the memory's roomId
\* is derived from the channel the message was posted to.
C6_SendRecordsCursor ==
    ev.op = "sendReturn" =>
        /\ roomStates[ev.room] # 0
        /\ heap[roomStates[ev.room]].lastMessageId = ev.id
        /\ ev.mem[1].roomId = StringToUuid(ev.ch)

\* C8: cleanup(a) leaves a in neither map, a never gets a runtime again, and
\* every sendMessage(a) called after it fails at the check, with no request
\* made, although the direct-message channel is there to fall back to.
C8_NotFoundAfterCleanup ==
    /\ ev.op = "cleanup" => (ev.key \notin agents /\ roomStates[ev.key] = 0)
    /\ \A a \in AgentIds : cleaned[a] # "never" => a \notin agents
    /\ ev.op = "sendPost" => cleaned[ev.key] = "never"
    /\ ev.op = "sendNotFound" => send.pc = "idle"

C8_Witness ==
    /\ ev.op = "sendNotFound"
    /\ cleaned[ev.key] # "never"
    /\ currentDMChannel # NoChannel

\* C9: when setActiveChannel(a, c) returns, the room of a is bound to c and
\* has a live polling timer, whether the seed request succeeded or failed.
C9_ActiveAfterSwitch ==
    ev.op = "setDone" =>
        /\ roomStates[ev.key] # 0
        /\ heap[roomStates[ev.key]].channelId = ev.ch
        /\ LiveTimer(roomStates[ev.key])

\* C10: once cleanup(a) has run, and until setActiveChannel(a) is called
\* again, no uncancelled timer polls a.
C10_NoTimerAfterCleanup ==
    \A a \in AgentIds : cleaned[a] = "clean" => LiveTimersOf(a) = {}

\* C11: a tick whose request or response fails ends quietly: nothing is thrown
\* out of pollMessages, no handler was called, the step that ends it changes
\* no room state, cursor, timer or handler, and the timers of its room key can
\* fire again and start a new request.
C11_FailedTickContained ==
    /\ [](ev.op # "pollThrew")
    /\ [](ev.op = "pollFailed" =>
            /\ ev.calls = <<>>
            /\ \A o \in LiveTimersOf(ev.key) : ENABLED Tick(o, 1))
    /\ [][ev'.op = "pollFailed" =>
            /\ heap' = heap /\ roomStates' = roomStates
            /\ messageHandlers' = messageHandlers /\ agents' = agents]_vars

C11_Witness ==
    /\ ev.op = "pollFailed"
    /\ heap[ev.obj].lastMessageId # 0
    /\ chanLog[ev.ch][Len(chanLog[ev.ch])].id > heap[ev.obj].lastMessageId
    /\ messageHandlers # <<>>
    /\ LiveTimersOf(ev.key) # {}

\* C12: a sendMessage call whose post or whose createMemory fails ends by
\* raising: no memory record is returned, and the step that ends it leaves
\* every room state and cursor as it was.
C12_SendFailureRaised ==
    /\ [](ev.stage \in {"post", "mem"} =>
            ev.op = "sendThrew" /\ ev.failed /\ ev.mem = <<>>)
    /\ [][ev'.stage \in {"post", "mem"} =>
            heap' = heap /\ roomStates' = roomStates]_vars

C12_Witness ==
    /\ ev.op = "sendThrew" /\ ev.stage = "mem"
    /\ ev.obj # 0 /\ roomStates[ev.key] = ev.obj
    /\ heap[ev.obj].lastMessageId # ev.id

\* C13: whenever sendMessage raises to its caller, that call posted no message
\* to the platform channel (ev.id is the id the platform gave to the message
\* the call posted, 0 when it posted none).
C13_RaisedMeansNotPosted ==
    (ev.op \in {"sendThrew", "sendNotFound"} /\ ev.failed) =>
        /\ ev.id = 0
        /\ \A c \in Channels : \A i \in 1..Len(chanLog[c]) : chanLog[c][i].id # ev.id

\* C14: a tick for a room key that is mapped to no room state, or to one with
\* an empty channel id, returns at once: no request is ever in flight for such
\* a key, and the tick's step changes nothing of the manager or the platform,
\* calls no handler and throws nothing.
C14_NothingToPollIsNoOp ==
    /\ [](\A p \in 1..MaxPolls : polls[p].pc # "idle" =>
            polls[p].obj # 0 /\ polls[p].ch # NoChannel)
    /\ [](ev.op = "pollSkip" => ~ev.http /\ ev.calls = <<>> /\ ~ev.failed)
    /\ [][(\E o \in 1..nObj : LiveTimer(o) /\ NothingToPoll(roomStates[heap[o].key])
                              /\ ev'.op = "pollSkip" /\ ev'.key = heap[o].key)
          \/ ev'.op = "pollSkip" =>
            /\ ev'.op = "pollSkip"
            /\ UNCHANGED <<agents, roomStates, heap, nObj, messageHandlers,
                           currentDMChannel, chanLog, nextId, polls, sets, send>>]_vars

\* a timer left running for a key that is now mapped to a room state with
\* channel '' has just fired
C14_Witness ==
    /\ ev.op = "pollSkip"
    /\ roomStates[ev.key] # 0 /\ heap[roomStates[ev.key]].channelId = NoChannel
    /\ LiveTimersOf(ev.key) # {}

\* C15: when the response of a tick is read, a non-empty batch makes the
\* cursor of the tick's room state the id of the first item delivered, which is
\* the newest of the batch, bot-authored or not, and no handler has been called
\* for the tick before that step; an empty batch leaves every cursor as it was
\* and the tick ends with no handler called.
C15_CursorIsFirstDelivered ==
    [][\A p \in 1..MaxPolls :
          (polls[p].pc = "resp" /\ polls'[p].pc # "resp" /\ ev'.op # "pollFailed") =>
              LET q == polls[p]
              IN  IF q.batch # <<>>
                  THEN /\ heap'[q.obj].lastMessageId = q.batch[1].id
                       /\ \A j \in 1..Len(q.batch) : q.batch[j].id <= q.batch[1].id
                       /\ q.calls = <<>>
                  ELSE /\ heap' = heap
                       /\ ev'.op = "pollDone" /\ ev'.calls = <<>>]_vars

\* the first handler call of a tick whose newest message is the bot's own
C15_Witness ==
    /\ ev.op = "call"
    /\ \E p \in 1..MaxPolls :
          /\ polls[p].pc = "await" /\ Len(polls[p].calls) = 1
          /\ Len(polls[p].batch) >= 2 /\ polls[p].batch[1].bot
          /\ polls[p].since # 0
          /\ heap[polls[p].obj].lastMessageId = polls[p].batch[1].id

\* C16: cleanup of any agent leaves the handler set empty and nothing for the
\* fan-out loops in flight to visit, and a handler is only ever called while it
\* is in the handler set; so a handler registered before a cleanup is not
\* called after it, for a message of any room, until it is added again.
C16_CleanupClearsAllHandlers ==
    /\ [](ev.op = "cleanup" =>
            /\ messageHandlers = <<>>
            /\ \A p \in 1..MaxPolls : polls[p].todo = <<>>)
    /\ [][\A p \in 1..MaxPolls :
            Len(polls'[p].calls) > Len(polls[p].calls) =>
                polls'[p].calls[Len(polls'[p].calls)].h \in SeqToSet(messageHandlers)]_vars

\* cleanup of an agent that is not the constructing one, while a tick of the
\* direct-message room awaits the first call of a fan-out of two or more
C16_Witness ==
    /\ ev.op = "cleanup" /\ ev.key # RuntimeId
    /\ \E p \in 1..MaxPolls :
          /\ polls[p].pc = "await" /\ polls[p].key = DMKey
          /\ polls[p].changed = 1 /\ Len(polls[p].calls) = 1
          /\ Len(NonBot(polls[p].batch)) >= 2

\* C17: the cursor of a room state never moves backwards: once it holds the id
\* of a message, no step replaces it with the id of an older message (ids grow
\* with the time of posting, and a room state keeps its channel).
C17_CursorMonotonic ==
    [][\A o \in 1..MaxObj :
          heap[o].lastMessageId # 0 =>
              heap'[o].lastMessageId >= heap[o].lastMessageId]_vars

\* C18: for every room state the room-state map holds, the cursor, when set,
\* is the id of a message of that room state's own channel.
C18_CursorOfOwnChannel ==
    \A k \in Keys :
        LET s == roomStates[k]
        IN  (s # 0 /\ heap[s].lastMessageId # 0) =>
                /\ heap[s].channelId \in Channels
                /\ \E i \in 1..Len(chanLog[heap[s].channelId]) :
                      chanLog[heap[s].channelId][i].id = heap[s].lastMessageId

\* C19: cleanup(agentId) leaves every other room key as it was: its mapping,
\* its room state object with channel, cursor and timer, and every room state
\* object made for another key; the direct-message room stays mapped with its
\* timer running.
C19_CleanupLeavesOtherRooms ==
    /\ [](roomStates[DMKey] # 0 /\ LiveTimer(roomStates[DMKey]))
    /\ [][ev'.op = "cleanup" =>
            /\ \A k \in Keys \ {ev'.key} : roomStates'[k] = roomStates[k]
            /\ \A o \in 1..MaxObj : heap[o].key # ev'.key => heap'[o] = heap[o]]_vars

\* the constructing agent has just been cleaned up while another agent's room
\* is polling
C19_Witness ==
    /\ ev.op = "cleanup" /\ ev.key = RuntimeId /\ RuntimeId \notin agents
    /\ \E k \in AgentIds \ {RuntimeId} :
          roomStates[k] # 0 /\ LiveTimer(roomStates[k])
    /\ \E o \in 1..nObj : heap[o].key = RuntimeId /\ heap[o].cleared

====
